---- MODULE Spec2Model ----
(***************************************************************************)
(* cirq_ionq.Sampler: the adapter that runs a parameter sweep against the  *)
(* IonQ service.  One Sampler object is constructed (Init) and run_sweep   *)
(* is called on it repeatedly; each call is unfolded into the service      *)
(* calls it makes, in the order the code makes them.                       *)
(***************************************************************************)
EXTENDS Integers, Sequences, FiniteSets, TLC

\* ------------------------------------------------------------------ bounds
MaxSweep == 3
RngMod == 2

\* ------------------------------------------------------------ value domains
Symbols == {"a"}
Values == {"1"}
Terms == Symbols \cup Values

\* A circuit is the sequence of its gate parameters: a symbol or a number.
Programs == {<<"a">>, <<"1", "a">>}

\* A resolver binds symbols to values; a symbol it does not bind resolves to
\* itself.
Resolvers == {r \in [Symbols -> Terms] : \A s \in Symbols : r[s] \in Values \cup {s}}
EmptyResolver == [s \in Symbols |-> s]

RECURSIVE SeqsUpTo(_, _)
SeqsUpTo(S, n) ==
    IF n = 0 THEN {<<>>}
    ELSE LET shorter == SeqsUpTo(S, n - 1)
         IN  shorter \cup {Append(q, x) : q \in {p \in shorter : Len(p) = n - 1}, x \in S}

\* cirq.Sweepable: None, one resolver, or a list of resolvers.
Sweepables ==
    {[kind |-> "none", points |-> <<>>]}
    \cup {[kind |-> "resolver", points |-> <<r>>] : r \in Resolvers}
    \cup {[kind |-> "list", points |-> q] : q \in SeqsUpTo(Resolvers, MaxSweep)}
NoParams == [kind |-> "list", points |-> <<>>]
RepetitionValues == {-1, 0, 4}
Targets == {"none", "simulator"}
Services == {"service"}
Errors == {"IonQException", "TimeoutError"}
Data == {"h0"}
Variants == {"qpu", "sim"}

\* cirq.RANDOM_STATE_OR_SEED_LIKE: None, an int, or a random-state object.
NoSeed == [kind |-> "none", val |-> 0]
Seeds == {NoSeed, [kind |-> "int", val |-> 1], [kind |-> "rs", val |-> 0]}

NoError == "ok"

VARIABLES
    ctor,            \* the constructor's arguments
    self_service,    \* self._service
    self_target,     \* self._target
    self_seed,       \* self._seed
    rng,             \* state of the random-state object a seed may refer to
    pc,              \* position inside run_sweep
    program, params, repetitions,        \* arguments of the running call
    resolvers, jobs, job_results, cirq_results,   \* locals of run_sweep
    created,         \* requests the service accepted during this call
    log,             \* service calls made during this call, in order
    conv,            \* to_cirq_result calls made during this call, in order
    returned,        \* the list run_sweep returned
    hasReturned,     \* whether run_sweep returned a list
    raised,          \* the error that left run_sweep
    svcError,        \* the error the service raised
    simMemo          \* the first simulator conversion made with a set seed

config == <<ctor, self_service, self_target, self_seed>>
args == <<program, params, repetitions>>
locals == <<resolvers, jobs, job_results, cirq_results>>
trace == <<created, log, conv>>
outcome == <<returned, hasReturned, raised, svcError>>
vars == <<config, rng, pc, args, locals, trace, outcome, simMemo>>

\* ------------------------------------------------------- external operators
\* cirq.to_resolvers: the resolvers of the sweepable, in order; None is the
\* sweep of the one empty resolver.
to_resolvers(sweepable) ==
    IF sweepable.kind = "none" THEN <<EmptyResolver>> ELSE sweepable.points

\* cirq.resolve_parameters: every symbol replaced by what the resolver gives.
resolve_parameters(circuit, resolver) ==
    [i \in 1..Len(circuit) |->
        IF circuit[i] \in Symbols THEN resolver[circuit[i]] ELSE circuit[i]]

\* The seed argument as the docstring of __init__ reads it.
SeedKind(seed) == seed.kind
FreshState(seed) == seed.val % RngMod

\* QPUResult.to_cirq_result(params=...)
QPUToCirqResult(result, p) ==
    [params |-> p, variant |-> result.variant, data |-> result.data,
     job |-> result.job, sampled |-> FALSE, draw |-> 0]

\* SimulatorResult.to_cirq_result(params=..., seed=...), d the sample the
\* random state parsed from the seed yields.
SimToCirqResult(result, p, d) ==
    [params |-> p, variant |-> result.variant, data |-> result.data,
     job |-> result.job, sampled |-> TRUE, draw |-> d]

\* The samples the random state parsed from seed can yield, and the state it
\* leaves the random-state object in.
Draws(seed, state) ==
    CASE SeedKind(seed) = "none" -> 0..(RngMod - 1)
      [] SeedKind(seed) = "int"  -> {FreshState(seed)}
      [] OTHER                   -> {state}
RngAfter(seed, state) ==
    IF SeedKind(seed) = "rs" THEN (state + 1) % RngMod ELSE state

\* The first conversion of a simulator result made with a seed that is set,
\* and whether an earlier call made it.
NoMemo == [seen |-> FALSE, earlier |-> FALSE, data |-> "h0",
           params |-> EmptyResolver, draw |-> 0]
Remember(memo, seed, result, p, d) ==
    IF memo.seen \/ SeedKind(seed) = "none" THEN memo
    ELSE [seen |-> TRUE, earlier |-> FALSE, data |-> result.data, params |-> p,
          draw |-> d]

\* --------------------------------------------------------------------- Init
\* Sampler.__init__
Init ==
    /\ ctor \in [service : Services, target : Targets, seed : Seeds]
    /\ self_service = ctor.service
    /\ self_target = ctor.target
    /\ self_seed = ctor.seed
    /\ rng \in IF SeedKind(ctor.seed) = "rs" THEN 0..(RngMod - 1) ELSE {0}
    /\ pc = "idle"
    /\ program = <<>> /\ params = NoParams /\ repetitions = 0
    /\ resolvers = <<>> /\ jobs = <<>> /\ job_results = <<>> /\ cirq_results = <<>>
    /\ created = <<>> /\ log = <<>> /\ conv = <<>>
    /\ returned = <<>> /\ hasReturned = FALSE
    /\ raised = NoError /\ svcError = NoError
    /\ simMemo = NoMemo

\* Where run_sweep stands once `done` of the n elements of a comprehension or
\* loop are through.
After(done, n, here, next) == IF done >= n THEN next ELSE here

\* ------------------------------------------------------------------ actions
\* run_sweep is entered: line 80.
Call ==
    /\ pc = "idle"
    /\ \E prog \in Programs, sw \in Sweepables, reps \in RepetitionValues :
        /\ program' = prog
        /\ params' = sw
        /\ repetitions' = reps
        /\ resolvers' = to_resolvers(sw)
        /\ pc' = After(0, Len(to_resolvers(sw)), "create", "return")
    /\ UNCHANGED <<config, rng, jobs, job_results, cirq_results, trace, outcome, simMemo>>

\* The request of one iteration of the comprehension of lines 81-88.
JobRequest_ClampsRepetitions(i) ==
    [circuit |-> resolve_parameters(program, resolvers[i]),
     repetitions |-> IF repetitions < 1 THEN 1 ELSE repetitions,
     target |-> self_target]
JobRequest_BindsFreeSymbols(i) ==
    [circuit |-> [k \in 1..Len(program) |->
                    IF resolve_parameters(program, resolvers[i])[k] \in Symbols
                    THEN "1" ELSE resolve_parameters(program, resolvers[i])[k]],
     repetitions |-> repetitions,
     target |-> self_target]
JobRequest(i) ==
    [circuit |-> resolve_parameters(program, resolvers[i]),
     repetitions |-> repetitions,
     target |-> self_target]

\* One iteration of lines 81-88 in which create_job returns a job.
CreateJob_AwaitsAtOnce ==
    /\ pc = "create"
    /\ LET i == Len(jobs) + 1
           id == Len(created) + 1
       IN  /\ created' = Append(created, JobRequest(i))
           /\ jobs' = Append(jobs, id)
           /\ \E v \in Variants, d \in Data :
                job_results' = Append(job_results, [variant |-> v, data |-> d, job |-> id])
           /\ log' = log \o <<[op |-> "create_job", job |-> id, ok |-> TRUE],
                              [op |-> "results", job |-> id, ok |-> TRUE]>>
           /\ pc' = After(i, Len(resolvers), "create", "convert")
    /\ UNCHANGED <<config, rng, args, resolvers, cirq_results, conv, outcome, simMemo>>
CreateJob ==
    /\ pc = "create"
    /\ LET i == Len(jobs) + 1
           id == Len(created) + 1
       IN  /\ created' = Append(created, JobRequest(i))
           /\ jobs' = Append(jobs, id)
           /\ log' = Append(log, [op |-> "create_job", job |-> id, ok |-> TRUE])
           /\ pc' = After(i, Len(resolvers), "create", "results")
    /\ UNCHANGED <<config, rng, args, resolvers, job_results, cirq_results,
                   conv, outcome, simMemo>>

\* No handler stands between the service and the caller: the error leaves
\* run_sweep as it was raised.
Propagated_Wrapped(e) == "RuntimeError"
Propagated(e) == e

\* One iteration of lines 81-88 in which create_job raises.
CreateJobRaises ==
    /\ pc = "create"
    /\ \E e \in Errors :
        /\ svcError' = e
        /\ raised' = Propagated(e)
    /\ log' = Append(log, [op |-> "create_job", job |-> Len(created) + 1, ok |-> FALSE])
    /\ pc' = "raised"
    /\ UNCHANGED <<config, rng, args, locals, created, conv, returned,
                   hasReturned, simMemo>>

\* Line 89: the job whose results() is called i-th.
AwaitedJob_Reversed(i) == jobs[Len(jobs) + 1 - i]
AwaitedJob(i) == jobs[i]

\* One iteration of line 89 in which results() returns.
JobResults ==
    /\ pc = "results"
    /\ LET i == Len(job_results) + 1
           job == AwaitedJob(i)
       IN  /\ \E v \in Variants, d \in Data :
                job_results' = Append(job_results, [variant |-> v, data |-> d, job |-> job])
           /\ log' = Append(log, [op |-> "results", job |-> job, ok |-> TRUE])
           /\ pc' = After(i, Len(jobs), "results", "convert")
    /\ UNCHANGED <<config, rng, args, resolvers, jobs, cirq_results,
                   created, conv, outcome, simMemo>>

\* One iteration of line 89 in which results() raises.
JobResultsRaises ==
    /\ pc = "results"
    /\ \E e \in Errors :
        /\ svcError' = e
        /\ raised' = Propagated(e)
    /\ log' = Append(log, [op |-> "results", job |-> AwaitedJob(Len(job_results) + 1), ok |-> FALSE])
    /\ pc' = "raised"
    /\ UNCHANGED <<config, rng, args, locals, created, conv, returned,
                   hasReturned, simMemo>>

\* Line 91: the resolver zip pairs with the i-th result.
PairedResolver_First(i) == resolvers[1]
PairedResolver(i) == resolvers[i]

\* Line 92: only a result that is no QPUResult is converted with the seed.
TakesSeed_Always(result) == TRUE
TakesSeed(result) == result.variant # "qpu"

\* Line 95: the seed handed to to_cirq_result.
SeedArg_Dropped == NoSeed
SeedArg == self_seed

\* One iteration of the loop of lines 91-95.
Convert ==
    /\ pc = "convert"
    /\ LET i == Len(cirq_results) + 1
           result == job_results[i]
           p == PairedResolver(i)
       IN  /\ IF ~TakesSeed(result)
              THEN /\ cirq_results' = Append(cirq_results, QPUToCirqResult(result, p))
                   /\ conv' = Append(conv, [job |-> result.job, params |-> p,
                                            withSeed |-> FALSE, seed |-> NoSeed])
                   /\ UNCHANGED <<rng, simMemo>>
              ELSE /\ \E d \in Draws(SeedArg, rng) :
                        /\ cirq_results' = Append(cirq_results, SimToCirqResult(result, p, d))
                        /\ simMemo' = Remember(simMemo, self_seed, result, p, d)
                   /\ conv' = Append(conv, [job |-> result.job, params |-> p,
                                            withSeed |-> TRUE, seed |-> SeedArg])
                   /\ rng' = RngAfter(SeedArg, rng)
           /\ pc' = After(i, Len(job_results), "convert", "return")
    /\ UNCHANGED <<config, args, resolvers, jobs, job_results, created, log,
                   outcome>>

\* Line 96.
Return_ResetsSeed ==
    /\ pc = "return"
    /\ returned' = cirq_results
    /\ hasReturned' = TRUE
    /\ pc' = "done"
    /\ self_seed' = NoSeed
    /\ UNCHANGED <<ctor, self_service, self_target, rng, args, locals, trace, raised,
                   svcError, simMemo>>
Return ==
    /\ pc = "return"
    /\ returned' = cirq_results
    /\ hasReturned' = TRUE
    /\ pc' = "done"
    /\ UNCHANGED <<config, rng, args, locals, trace, raised, svcError, simMemo>>

\* The call is over: the caller has the list or the error, and the frame of
\* run_sweep is gone.
Leave ==
    /\ pc \in {"done", "raised"}
    /\ pc' = "idle"
    /\ program' = <<>> /\ params' = NoParams /\ repetitions' = 0
    /\ resolvers' = <<>> /\ jobs' = <<>> /\ job_results' = <<>> /\ cirq_results' = <<>>
    /\ created' = <<>> /\ log' = <<>> /\ conv' = <<>>
    /\ returned' = <<>> /\ hasReturned' = FALSE
    /\ raised' = NoError /\ svcError' = NoError
    /\ simMemo' = [simMemo EXCEPT !.earlier = simMemo.seen]
    /\ UNCHANGED <<config, rng>>

Next ==
    \/ Call
    \/ Leave
    \/ CreateJob
    \/ CreateJobRaises
    \/ JobResults
    \/ JobResultsRaises
    \/ Convert
    \/ Return

Spec == Init /\ [][Next]_vars

\* ------------------------------------------------------------------- claims
IsCreate(e) == e.op = "create_job"
IsResults(e) == e.op = "results"
CreateEvents == SelectSeq(log, IsCreate)
ResultsEvents == SelectSeq(log, IsResults)
\* The sweep of the running call, as the caller gave it, and its length.
Expected == to_resolvers(params)
N == Len(Expected)
Finished == pc = "done"

\* C1: a call in which every service call succeeds returns exactly one result
\* per resolver of the sweep, and the i-th is the conversion, with the i-th
\* resolver, of the result of the job created for the i-th resolver.
C1_OneResultPerResolverInOrder ==
    Finished =>
        /\ hasReturned
        /\ Len(returned) = N
        /\ \A i \in 1..N :
            /\ returned[i].params = Expected[i]
            /\ returned[i].job = CreateEvents[i].job
            /\ created[returned[i].job].circuit = resolve_parameters(program, Expected[i])
            /\ job_results[i].job = returned[i].job
            /\ returned[i].variant = job_results[i].variant
            /\ returned[i].data = job_results[i].data
C1_Witness ==
    /\ Finished
    /\ N = 3
    /\ Expected[1] # Expected[2]
    /\ Len(returned) = 3

\* C2: the service accepts one create_job request per sweep point, in sweep
\* order, each with the caller's repetitions as given and the target of the
\* constructor; a call that returns has made exactly N create_job calls.
C2_OneCreatePerPointRepetitionsUnchanged ==
    /\ \A i \in 1..Len(created) :
        created[i] = [circuit |-> resolve_parameters(program, Expected[i]),
                      repetitions |-> repetitions,
                      target |-> ctor.target]
    /\ Len(created) <= N
    /\ Finished => Len(CreateEvents) = N /\ Len(created) = N
C2_Witness ==
    /\ Finished
    /\ N = 3
    /\ repetitions = 4
    /\ Len(CreateEvents) = 3
C2_WitnessNotPositive ==
    /\ Finished
    /\ N = 2
    /\ repetitions < 1
    /\ created[2].repetitions = repetitions

\* C3: when create_job raises, that call is the last service call of
\* run_sweep, no list is returned and the error that leaves run_sweep is the
\* error the service raised.
C3_CreateFailureSurfaces ==
    \A k \in 1..Len(log) :
        (IsCreate(log[k]) /\ ~log[k].ok) =>
            /\ k = Len(log)
            /\ pc = "raised"
            /\ ~hasReturned /\ returned = <<>>
            /\ svcError \in Errors
            /\ raised = svcError
            /\ Len(CreateEvents) = k
C3_Witness ==
    /\ pc = "raised"
    /\ N = 3
    /\ Len(log) = 2
    /\ IsCreate(log[2]) /\ ~log[2].ok
    /\ raised = "TimeoutError"

\* C4: a QPU result is converted from the result and its resolver alone: the
\* conversion call carries no seed and its output is the same whatever seed
\* the sampler was constructed with.
C4_QPUConversionIgnoresSeed ==
    \A i \in 1..Len(cirq_results) :
        job_results[i].variant = "qpu" =>
            /\ ~conv[i].withSeed
            /\ conv[i].seed = NoSeed
            /\ cirq_results[i] = QPUToCirqResult(job_results[i], Expected[i])
C4_Witness ==
    /\ Finished
    /\ ctor.seed.kind = "rs"
    /\ rng # 0
    /\ \E i \in 1..Len(cirq_results) : job_results[i].variant = "qpu"

SameAsRemembered(i) ==
    /\ cirq_results[i].sampled
    /\ cirq_results[i].data = simMemo.data
    /\ cirq_results[i].params = simMemo.params

C6_ConfigurationNeverChanges ==
    /\ self_service = ctor.service
    /\ self_target = ctor.target
    /\ self_seed = ctor.seed
C6_Witness ==
    /\ pc = "raised"
    /\ simMemo.earlier
    /\ ctor.seed.kind = "rs"
    /\ rng # 0

\* C7: for a sweep of the single empty resolver exactly one job is created,
\* and its circuit is the program as given.
C7_EmptyResolverSubmitsProgram ==
    (Finished /\ Expected = <<EmptyResolver>>) =>
        /\ Len(CreateEvents) = 1
        /\ Len(created) = 1
        /\ created[1].circuit = program
C7_Witness ==
    /\ Finished
    /\ Expected = <<EmptyResolver>>
    /\ \E k \in 1..Len(program) : program[k] \in Symbols
    /\ Len(created) = 1

\* C8: in the order of the service calls of one run_sweep, no create_job
\* follows a results(); the k-th results() is on the k-th job created; and
\* once the results are in, each job's results() was called exactly once.
C8_CreateAllThenAwaitInOrder ==
    /\ \A i, j \in 1..Len(log) : (i < j /\ IsResults(log[i])) => IsResults(log[j])
    /\ Len(ResultsEvents) <= Len(CreateEvents)
    /\ \A k \in 1..Len(ResultsEvents) : ResultsEvents[k].job = CreateEvents[k].job
    /\ pc \in {"convert", "return", "done"} => Len(ResultsEvents) = N
C8_Witness ==
    /\ pc = "results"
    /\ N = 3
    /\ Len(CreateEvents) = 3
    /\ Len(ResultsEvents) = 2

\* C9: the i-th conversion is of the result of the i-th job, with the i-th
\* resolver, which is the resolver the circuit of that job was resolved
\* with; a result that is no QPU result is converted with the sampler's seed.
C9_OwnResolverAndSeed ==
    \A i \in 1..Len(conv) :
        /\ conv[i].params = Expected[i]
        /\ conv[i].job = CreateEvents[i].job
        /\ created[conv[i].job].circuit = resolve_parameters(program, conv[i].params)
        /\ cirq_results[i].params = Expected[i]
        /\ job_results[i].variant # "qpu" =>
            /\ conv[i].withSeed
            /\ conv[i].seed = ctor.seed
C9_Witness ==
    /\ Len(conv) = 3
    /\ Expected[1] # Expected[3]
    /\ job_results[3].variant = "sim"
    /\ ctor.seed.kind = "int"

\* C10: when results() raises on the k-th job, all N jobs were created
\* before, results() was called on jobs 1..k and on no other, nothing was
\* converted, no list is returned and the error leaves run_sweep; when
\* create_job raises at point k, the k-1 jobs before it stay submitted and
\* results() is never called.
C10_FailureLeavesJobsSubmitted ==
    \A k \in 1..Len(log) :
        ~log[k].ok =>
            /\ k = Len(log)
            /\ pc = "raised"
            /\ ~hasReturned
            /\ raised = svcError /\ svcError \in Errors
            /\ conv = <<>> /\ cirq_results = <<>>
            /\ IsResults(log[k]) =>
                /\ Len(created) = N
                /\ Len(CreateEvents) = N
                /\ \A j \in 1..Len(ResultsEvents) : ResultsEvents[j].job = CreateEvents[j].job
                /\ Len(ResultsEvents) = k - N
            /\ IsCreate(log[k]) =>
                /\ Len(created) = k - 1
                /\ \A j \in 1..(k - 1) :
                    created[j].circuit = resolve_parameters(program, Expected[j])
                /\ ResultsEvents = <<>>
C10_Witness ==
    /\ pc = "raised"
    /\ N = 3
    /\ Len(ResultsEvents) = 2
    /\ ~log[Len(log)].ok
    /\ Len(created) = 3

====
